---- MODULE Spec2Model ----
(***************************************************************************)
(* Model of etl.py: the incremental copy of the tables address and company *)
(* from the database "source" to the database "target", with the watermark *)
(* log public.etl_runs.  The program is a sequential script; the databases *)
(* are modelled as PostgreSQL behaves for the statements the script sends *)
(* (read committed transactions, one transaction per connection).          *)
(***************************************************************************)
EXTENDS Integers, Sequences, FiniteSets, TLC

\* ---------------------------------------------------------------- bounds
MaxDay == 2        \* the clock runs over the days 0..MaxDay
MaxRows == 2       \* rows other clients write into each source table
MaxRuns == 2       \* invocations of the script
MaxCalls == 6      \* calls a caller of the watermark store makes
MaxEvents == 2     \* days passed, rows written and schema changes, together
TicksPerDay == 2   \* resolution of a TIMESTAMPTZ value, in ticks per day

\* ------------------------------------------------------ values and types
\* Python None / an absent optional value; Some(x) is a present one.
None == {}
Some(x) == {x}
The(o) == CHOOSE x \in o : TRUE

Column(name, type) == [name |-> name, type |-> type]
Relation(db, schema, name) == [db |-> db, schema |-> schema, name |-> name]

Pairs == {"address", "company"}

log == Relation("target", "public", "etl_runs")
log_columns ==
    << Column("schema_name", "TEXT"),
       Column("relation_name", "TEXT"),
       Column("loaded", "TIMESTAMPTZ") >>

Source(p) == Relation("source", "public", p)
Target(p) == Relation("target", "public", p)
KeyField(p) == IF p = "address" THEN "id" ELSE "company_id"
TstzField(p) == "created_at"

Rels == {Source(p) : p \in Pairs} \cup {Target(p) : p \in Pairs} \cup {log}

\* date -> TIMESTAMPTZ: the assignment cast of the INSERT into loaded
\* (midnight at the start of that day); TIMESTAMPTZ -> date: the %s::DATE
\* cast of the copy query.
ToTimestamptz(d) == d * TicksPerDay
ToDate(t) == t \div TicksPerDay

\* ------------------------------------------------------------ the tables
NoTable == [exists |-> FALSE, cols |-> <<>>, unique |-> {}, rows |-> <<>>]

ColNames(cols) == [i \in 1..Len(cols) |-> cols[i].name]
SeqRange(s) == {s[i] : i \in 1..Len(s)}

RECURSIVE FilterSeq(_, _)
\* the rows of s that are in the set keep, in order
FilterSeq(s, keep) ==
    IF s = <<>> THEN <<>>
    ELSE IF Head(s) \in keep THEN <<Head(s)>> \o FilterSeq(Tail(s), keep)
         ELSE FilterSeq(Tail(s), keep)

\* SELECT * returns each row as a tuple in the table's column order
RowTuple(row, cols) == [i \in 1..Len(cols) |-> row[cols[i].name]]

VARIABLES
    tables,      \* committed state of the two databases, by relation
    clock,       \* the current day
    runs,        \* invocations of the script so far
    prog,        \* the calls the running process makes, in order
    status,      \* "idle", "running", "done", "failed"
    step,        \* position of main() in MainSteps
    sub,         \* position inside the function main() is calling
    stack,       \* open connect() scopes, innermost last
    exc,         \* an exception is propagating
    columns,     \* address_columns / company_columns of main()
    last_upload, \* last_upload of main()
    today,       \* today of main()
    frame,       \* locals of the called function: columns, row
    cur,         \* copy(): description, fetched rows, insert query, position
    \* observations of the run; they never influence the program
    released,    \* the connect() scope that exited last: its database,
                 \* whether it had a cursor, the calls made on it
    logAtStart,  \* rows of the log when the run started
    srcAtSelect, \* per pair, the source rows at its latest copy SELECT
    tgtBefore,   \* rows of the target table when the current copy() began
    emCalls,     \* executemany calls of the current copy()
    written,     \* kept by a caller of the watermark store: per pair, the
                 \* outcome of its latest log_upload and the
                 \* arguments of the last two that returned
    copied       \* pairs whose copy() returned normally in this run

progvars == << status, step, sub, stack, exc, columns, last_upload, today,
               frame, cur >>
obsvars == << released, logAtStart, srcAtSelect, tgtBefore, emCalls,
              written, copied >>
vars == << tables, clock, runs, prog, progvars, obsvars >>

\* ------------------------------------------------------------- main()
Step(fn, pair) == [fn |-> fn, pair |-> pair]

\* mutant: the watermark is written before the copy
PairSteps_LogFirst(p) ==
    << Step("get_last_uploaded_time", p), Step("today", p),
       Step("log_upload", p), Step("copy", p) >>

PairSteps(p) ==
    << Step("get_last_uploaded_time", p), Step("today", p),
       Step("copy", p), Step("log_upload", p) >>

\* mutant: both watermarks are written after both copies
MainSteps_LogAtEnd ==
    << Step("get_columns", "address"), Step("get_columns", "company"),
       Step("make_sure_table_exists", "address"),
       Step("make_sure_table_exists", "company"),
       Step("make_sure_table_exists", "log"),
       Step("get_last_uploaded_time", "address"), Step("today", "address"),
       Step("copy", "address"),
       Step("get_last_uploaded_time", "company"), Step("today", "company"),
       Step("copy", "company"),
       Step("log_upload", "address"), Step("log_upload", "company") >>

MainSteps ==
    << Step("get_columns", "address"), Step("get_columns", "company"),
       Step("make_sure_table_exists", "address"),
       Step("make_sure_table_exists", "company"),
       Step("make_sure_table_exists", "log") >>
    \o PairSteps("address") \o PairSteps("company")

Cur == prog[step]
Running(fn, s) == status = "running" /\ Cur.fn = fn /\ sub = s

\* --------------------------------------------------------- connect()
NewConn(db, hasCursor) ==
    [db |-> db, cursor |-> hasCursor, calls |-> <<>>, aborted |-> FALSE,
     writes |-> [r \in Rels |-> {}]]

Top == stack[Len(stack)]

\* what the transaction of connection c sees of relation r
View(c, r) == IF c.writes[r] = {} THEN tables[r] ELSE The(c.writes[r])

\* the connection after executing a statement that leaves relation r as t
Wrote(c, what, r, t) ==
    [c EXCEPT !.calls = Append(@, what), !.writes[r] = {t}]
Called(c, what) == [c EXCEPT !.calls = Append(@, what)]

\* the database the scope about to be entered connects to
ScopeDb ==
    CASE Cur.fn = "get_columns" -> Source(Cur.pair).db
      [] Cur.fn = "make_sure_table_exists" -> log.db
      [] Cur.fn = "get_last_uploaded_time" -> log.db
      [] Cur.fn = "log_upload" -> log.db
      [] Cur.fn = "copy" /\ sub = "call" -> Source(Cur.pair).db
      [] Cur.fn = "copy" /\ sub = "connect_tgt" -> Target(Cur.pair).db

\* the first statement of the scope just entered
BodyStart ==
    CASE Cur.fn = "log_upload" -> "delete"
      [] Cur.fn = "copy" /\ sub = "call" -> "select"
      [] Cur.fn = "copy" /\ sub = "connect_tgt" -> "executemany"
      [] OTHER -> "execute"

\* the locals of copy() before it has run a statement
NoCursor == [description |-> <<>>, fetched |-> <<>>, i |-> 0,
             insert_query |-> [rel |-> log, columns |-> <<>>,
                               placeholders |-> 0, conflict |-> ""]]

\* control after an exception starts to propagate with the scopes s open:
\* no frame catches it, so the locals of the function and of main() are
\* gone, and only the finally blocks of the open scopes still run
Raised(s) ==
    /\ exc' = TRUE
    /\ IF s = <<>>
       THEN status' = "failed" /\ sub' = "none"
       ELSE status' = status /\ sub' = "unwind"
    /\ columns' = [p \in Pairs |-> <<>>]
    /\ last_upload' = None
    /\ today' = 0
    /\ frame' = [columns |-> <<>>, row |-> None]
    /\ cur' = NoCursor
    /\ srcAtSelect' = [p \in Pairs |-> {}]
    /\ tgtBefore' = <<>>
    /\ emCalls' = <<>>

\* main() goes on after the called function returned normally
Returns ==
    /\ exc' = FALSE
    /\ IF step = Len(prog)
       THEN status' = "done" /\ step' = step /\ sub' = "none"
       ELSE status' = status /\ step' = step + 1 /\ sub' = "call"
    /\ columns' = IF Cur.fn = "get_columns"
                  THEN [columns EXCEPT ![Cur.pair] = frame.columns]
                  ELSE columns
    /\ last_upload' = IF Cur.fn = "get_last_uploaded_time"
                      THEN frame.row ELSE last_upload
    /\ copied' = IF Cur.fn = "copy" THEN copied \cup {Cur.pair} ELSE copied
    /\ written' = written

\* observations when the called function raises
Raises ==
    /\ UNCHANGED << step, copied, written >>

\* connect(), lines 22-28: open the connection and its cursor; either may
\* raise, and the with statement then never runs its body
connect ==
    /\ status = "running"
    /\ sub \in {"call", "connect_tgt"}
    /\ Cur.fn # "today"
    /\ \E o \in {"ok", "connect", "cursor"} :
         CASE o = "ok" ->
                /\ stack' = Append(stack, NewConn(ScopeDb, TRUE))
                /\ sub' = BodyStart
                /\ tgtBefore' = IF Cur.fn = "copy" /\ sub = "call"
                                THEN tables[Target(Cur.pair)].rows
                                ELSE tgtBefore
                /\ emCalls' = IF Cur.fn = "copy" /\ sub = "call"
                              THEN <<>> ELSE emCalls
                /\ UNCHANGED << status, exc, step, copied, written,
                                columns, last_upload, today, frame, cur,
                                srcAtSelect >>
           [] o = "connect" ->
                /\ stack' = stack
                /\ Raised(stack)
                /\ IF stack = <<>> THEN Raises
                   ELSE UNCHANGED << step, copied, written >>
           [] o = "cursor" ->
                /\ stack' = Append(stack, NewConn(ScopeDb, FALSE))
                /\ Raised(Append(stack, NewConn(ScopeDb, FALSE)))
                /\ UNCHANGED << step, copied, written >>
    /\ UNCHANGED << tables, clock, runs, prog, released,
                    logAtStart >>

\* a statement of the body raises: kind "db" is an error the server reports
\* (the transaction is aborted), kind "client" one raised before the
\* statement reaches the server (the transaction stays usable)
raise_in_body ==
    /\ status = "running"
    /\ sub \in {"execute", "select", "executemany", "inserting",
                "delete", "insert"}
    /\ \E kind \in {"db", "client"} :
         stack' = [stack EXCEPT ![Len(stack)].aborted = (kind = "db")]
    /\ Raised(stack)
    /\ UNCHANGED << tables, clock, runs, prog, step, released,
                    logAtStart, written, copied >>

\* mutant: the scope rolls back when it is left by an exception
Commit_RollbackOnError(c) ==
    IF exc \/ c.aborted THEN tables ELSE [r \in Rels |-> View(c, r)]

\* mutant: COMMIT applies the statements of an aborted transaction
Commit_IgnoreAbort(c) == [r \in Rels |-> View(c, r)]

\* the tables after connection c commits: an aborted transaction is rolled
\* back by COMMIT
Commit(c) ==
    IF c.aborted THEN tables ELSE [r \in Rels |-> View(c, r)]

\* the calls the finally block makes on a connection when the call named
\* by o raises ("ok": none does)
FinallyCalls(c, o) ==
    <<"commit">>
    \o (IF o = "commit" \/ ~c.cursor THEN <<>> ELSE <<"cursor.close">>)
    \o (IF o \in {"commit", "cursor.close"} THEN <<>> ELSE <<"close">>)

\* the sub position after a scope was left normally; "return" when the
\* function is over
AfterExit == IF sub = "exit_tgt" THEN "exit" ELSE "return"

\* connect(), lines 29-35: the finally block of the innermost scope
finally ==
    /\ status = "running"
    /\ sub \in {"exit", "exit_tgt", "unwind"}
    /\ stack # <<>>
    /\ \E o \in {"ok", "commit"} \cup
                (IF Top.cursor THEN {"cursor.close"} ELSE {}) \cup {"close"} :
         /\ tables' = IF o = "commit" THEN tables ELSE Commit(Top)
         /\ released' = Some([db |-> Top.db, cursor |-> Top.cursor,
                               calls |-> Top.calls \o FinallyCalls(Top, o)])
         /\ stack' = SubSeq(stack, 1, Len(stack) - 1)
         /\ IF exc \/ o # "ok"
            THEN /\ Raised(SubSeq(stack, 1, Len(stack) - 1))
                 /\ IF Len(stack) = 1 THEN Raises
                    ELSE UNCHANGED << step, copied, written >>
            ELSE /\ IF AfterExit = "return"
                    THEN Returns
                    ELSE /\ sub' = AfterExit
                         /\ UNCHANGED << status, exc, step, columns,
                                         last_upload, copied, written >>
                 /\ UNCHANGED << today, frame, cur, srcAtSelect, tgtBefore,
                                 emCalls >>
    /\ UNCHANGED << clock, runs, prog, logAtStart >>

\* ---------------------------------------------------- the functions
\* what a body statement leaves unchanged besides the stack and its locals
BodyFrame ==
    UNCHANGED << tables, clock, runs, prog, status, step, exc, columns,
                 last_upload, today, released, logAtStart, written,
                 copied >>

\* get_columns, lines 45-55: the catalog query and the loop over its rows
get_columns ==
    /\ Running("get_columns", "execute")
    /\ LET t == View(Top, Source(Cur.pair)) IN
         frame' = [frame EXCEPT !.columns =
                      [i \in 1..Len(t.cols) |->
                          Column(t.cols[i].name, t.cols[i].type)]]
    /\ stack' = [stack EXCEPT ![Len(stack)] = Called(@, "SELECT")]
    /\ sub' = "exit"
    /\ BodyFrame
    /\ UNCHANGED << cur, srcAtSelect, tgtBefore, emCalls >>

\* lines 61-63: one definition per column, UNIQUE on the key column
cols_ddl(cols, key) ==
    [i \in 1..Len(cols) |->
        [name |-> cols[i].name, type |-> cols[i].type,
         unique |-> (key = Some(cols[i].name))]]

\* the table CREATE TABLE makes from the column definitions
CreateTable(ddl) ==
    [exists |-> TRUE,
     cols |-> [i \in 1..Len(ddl) |-> Column(ddl[i].name, ddl[i].type)],
     unique |-> {ddl[i].name : i \in {j \in 1..Len(ddl) : ddl[j].unique}},
     rows |-> <<>>]

\* mutant: the table is created anew although it exists
CreateIfNotExists_Always(t, ddl) == CreateTable(ddl)

\* CREATE TABLE IF NOT EXISTS on the table t
CreateIfNotExists(t, ddl) == IF t.exists THEN t ELSE CreateTable(ddl)

\* the arguments main() passes to make_sure_table_exists, lines 141-143
ProvisionRel(p) == IF p = "log" THEN log ELSE Target(p)
ProvisionCols(p) == IF p = "log" THEN log_columns ELSE columns[p]
ProvisionKey(p) == IF p = "log" THEN None ELSE Some(KeyField(p))

\* make_sure_table_exists, lines 60-68
make_sure_table_exists ==
    /\ Running("make_sure_table_exists", "execute")
    /\ LET rel == ProvisionRel(Cur.pair)
           ddl == cols_ddl(ProvisionCols(Cur.pair), ProvisionKey(Cur.pair))
       IN stack' = [stack EXCEPT ![Len(stack)] =
              Wrote(@, "CREATE", rel, CreateIfNotExists(View(@, rel), ddl))]
    /\ sub' = "exit"
    /\ BodyFrame
    /\ UNCHANGED << frame, cur, srcAtSelect, tgtBefore, emCalls >>

\* the rows of the log table t recorded for relation rel
LogRowsOf(t, rel) ==
    {i \in 1..Len(t.rows) :
        /\ t.rows[i]["schema_name"] = rel.schema
        /\ t.rows[i]["relation_name"] = rel.name}

\* get_last_uploaded_time, lines 72-80: fetchone() yields one of the
\* matching rows (the query has no ORDER BY), or nothing
get_last_uploaded_time ==
    /\ Running("get_last_uploaded_time", "execute")
    /\ LET t == View(Top, log)
           hits == LogRowsOf(t, Target(Cur.pair))
       IN /\ t.exists
          /\ IF hits = {}
             THEN frame' = [frame EXCEPT !.row = None]
             ELSE \E i \in hits :
                    frame' = [frame EXCEPT !.row = Some(t.rows[i]["loaded"])]
    /\ stack' = [stack EXCEPT ![Len(stack)] = Called(@, "SELECT")]
    /\ sub' = "exit"
    /\ BodyFrame
    /\ UNCHANGED << cur, srcAtSelect, tgtBefore, emCalls >>

\* main(), lines 149 and 155: today = date.today()
date_today ==
    /\ Running("today", "call")
    /\ today' = clock
    /\ IF step = Len(prog)
       THEN status' = "done" /\ step' = step /\ sub' = "none"
       ELSE status' = status /\ step' = step + 1 /\ sub' = sub
    /\ UNCHANGED << tables, clock, runs, prog, stack, exc,
                    columns, last_upload, frame, cur, obsvars >>

\* DATERANGE(%s::DATE, NULL, '[)'): the lower bound, None when unbounded
\* mutant: the lower bound is the day after the watermark
DateRange_NextDay(lower) ==
    IF lower = None THEN None ELSE Some(ToDate(The(lower)) + 1)

DateRange(lower) == IF lower = None THEN None ELSE Some(ToDate(The(lower)))

\* mutant: the range filter lets every row through
InRange_All(d, range) == TRUE

\* mutant: the lower bound is exclusive, DATERANGE(.., '()')
InRange_Exclusive(d, range) == range = None \/ d > The(range)

\* d <@ range
InRange(d, range) == range = None \/ d >= The(range)

\* mutant: the column list is built in the reverse order
InsertQuery_Reversed(tgt, description, key_field) ==
    [rel |-> tgt,
     columns |-> [i \in 1..Len(description) |->
                     description[Len(description) + 1 - i]],
     placeholders |-> Len(description),
     conflict |-> key_field]

\* the INSERT statement copy() builds, lines 92-100
InsertQuery(tgt, description, key_field) ==
    [rel |-> tgt,
     columns |-> description,
     placeholders |-> Len(description),
     conflict |-> key_field]

\* copy(), lines 84-100: the SELECT on the source and the INSERT text
copy_select ==
    /\ Running("copy", "select")
    /\ LET src == Source(Cur.pair)
           t == View(Top, src)
           f == TstzField(Cur.pair)
           hit == {r \in SeqRange(t.rows) : InRange(r[f], DateRange(last_upload))}
           sel == FilterSeq(t.rows, hit)
       IN /\ t.exists
          /\ f \in SeqRange(ColNames(t.cols))
          /\ cur' = [description |-> ColNames(t.cols),
                     fetched |-> [i \in 1..Len(sel) |-> RowTuple(sel[i], t.cols)],
                     i |-> 0,
                     insert_query |-> InsertQuery(Target(Cur.pair),
                                         ColNames(t.cols), KeyField(Cur.pair))]
          /\ srcAtSelect' = [srcAtSelect EXCEPT ![Cur.pair] = SeqRange(t.rows)]
    /\ stack' = [stack EXCEPT ![Len(stack)] = Called(@, "SELECT")]
    /\ sub' = "connect_tgt"
    /\ BodyFrame
    /\ UNCHANGED << frame, tgtBefore, emCalls >>

\* copy(), lines 101-102: the executemany call with all fetched rows
copy_executemany ==
    /\ Running("copy", "executemany")
    /\ emCalls' = Append(emCalls, [query |-> cur.insert_query,
                                   params |-> cur.fetched])
    /\ IF cur.fetched = <<>>
       THEN sub' = "exit_tgt" /\ cur' = cur
       ELSE sub' = "inserting" /\ cur' = [cur EXCEPT !.i = 1]
    /\ stack' = [stack EXCEPT ![Len(stack)] = Called(@, "executemany")]
    /\ BodyFrame
    /\ UNCHANGED << frame, srcAtSelect, tgtBefore >>

IndexOf(seq, x) == CHOOSE i \in 1..Len(seq) : seq[i] = x

\* the server accepts the INSERT q with the parameters tuple on table t
InsertValid(t, q, tuple) ==
    /\ t.exists
    /\ SeqRange(q.columns) \subseteq SeqRange(ColNames(t.cols))
    /\ q.conflict \in t.unique
    /\ Len(tuple) = q.placeholders
    /\ q.placeholders = Len(q.columns)

\* mutant: the INSERT ignores the conflict clause
InsertRow_Always(t, q, tuple) ==
    [t EXCEPT !.rows = Append(@,
        [c \in SeqRange(ColNames(t.cols)) |->
            IF c \in SeqRange(q.columns)
            THEN tuple[IndexOf(q.columns, c)] ELSE 0])]

\* INSERT ... ON CONFLICT (key) DO NOTHING of one parameter tuple
InsertRow(t, q, tuple) ==
    LET row == [c \in SeqRange(ColNames(t.cols)) |->
                   IF c \in SeqRange(q.columns)
                   THEN tuple[IndexOf(q.columns, c)] ELSE 0]
    IN IF \E r \in SeqRange(t.rows) : r[q.conflict] = row[q.conflict]
       THEN t
       ELSE [t EXCEPT !.rows = Append(@, row)]

\* executemany, line 102: the statement is executed once per fetched row
copy_insert_row ==
    /\ Running("copy", "inserting")
    /\ LET q == cur.insert_query
           tuple == cur.fetched[cur.i]
           t == View(Top, q.rel)
       IN /\ InsertValid(t, q, tuple)
          /\ stack' = [stack EXCEPT ![Len(stack)].writes[q.rel] =
                          {InsertRow(t, q, tuple)}]
    /\ IF cur.i = Len(cur.fetched)
       THEN sub' = "exit_tgt" /\ cur' = cur
       ELSE sub' = sub /\ cur' = [cur EXCEPT !.i = @ + 1]
    /\ BodyFrame
    /\ UNCHANGED << frame, srcAtSelect, tgtBefore, emCalls >>

\* mutant: the DELETE has no WHERE clause
DeleteLogRows_All(t, rel) == [t EXCEPT !.rows = <<>>]

\* mutant: the DELETE removes nothing
DeleteLogRows_None(t, rel) == t

\* DELETE FROM log WHERE schema_name = .. AND relation_name = ..
DeleteLogRows(t, rel) ==
    [t EXCEPT !.rows = FilterSeq(@, {t.rows[i] :
                          i \in (1..Len(t.rows)) \ LogRowsOf(t, rel)})]

\* mutant: the INSERT adds the row twice
InsertLogRow_Twice(t, rel, last) ==
    [t EXCEPT !.rows = @ \o
        [i \in 1..2 |->
            [c \in SeqRange(ColNames(t.cols)) |->
                CASE c = "schema_name" -> rel.schema
                  [] c = "relation_name" -> rel.name
                  [] c = "loaded" -> ToTimestamptz(last)]]]

\* mutant: the stored timestamp is off by one tick
InsertLogRow_WrongDay(t, rel, last) ==
    [t EXCEPT !.rows = Append(@,
        [c \in SeqRange(ColNames(t.cols)) |->
            CASE c = "schema_name" -> rel.schema
              [] c = "relation_name" -> rel.name
              [] c = "loaded" -> ToTimestamptz(last) + 1])]

\* mutant: the row is inserted for the log relation instead of rel
InsertLogRow_WrongKey(t, rel, last) ==
    [t EXCEPT !.rows = Append(@,
        [c \in SeqRange(ColNames(t.cols)) |->
            CASE c = "schema_name" -> log.schema
              [] c = "relation_name" -> log.name
              [] c = "loaded" -> ToTimestamptz(last)])]

\* INSERT INTO log (schema_name, relation_name, loaded) VALUES (..)
InsertLogRow(t, rel, last) ==
    [t EXCEPT !.rows = Append(@,
        [c \in SeqRange(ColNames(t.cols)) |->
            CASE c = "schema_name" -> rel.schema
              [] c = "relation_name" -> rel.name
              [] c = "loaded" -> ToTimestamptz(last)])]

\* log_upload, lines 107-110
log_upload_delete ==
    /\ Running("log_upload", "delete")
    /\ View(Top, log).exists
    /\ stack' = [stack EXCEPT ![Len(stack)] =
           Wrote(@, "DELETE", log, DeleteLogRows(View(@, log), Target(Cur.pair)))]
    /\ sub' = "insert"
    /\ BodyFrame
    /\ UNCHANGED << frame, cur, srcAtSelect, tgtBefore, emCalls >>

\* log_upload, lines 111-116
log_upload_insert ==
    /\ Running("log_upload", "insert")
    /\ View(Top, log).exists
    /\ stack' = [stack EXCEPT ![Len(stack)] =
           Wrote(@, "INSERT", log, InsertLogRow(View(@, log), Target(Cur.pair), today))]
    /\ sub' = "exit"
    /\ BodyFrame
    /\ UNCHANGED << frame, cur, srcAtSelect, tgtBefore, emCalls >>

\* -------------------------------------------------- the environment
\* the script is started (again)
start_main ==
    /\ status \in {"idle", "done", "failed"}
    /\ runs < MaxRuns
    /\ runs' = runs + 1
    /\ prog' = MainSteps
    /\ status' = "running"
    /\ step' = 1
    /\ sub' = "call"
    /\ exc' = FALSE
    /\ stack' = <<>>
    /\ columns' = [p \in Pairs |-> <<>>]
    /\ last_upload' = None
    /\ today' = 0
    /\ frame' = [columns |-> <<>>, row |-> None]
    /\ cur' = NoCursor
    /\ logAtStart' = tables[log].rows
    /\ copied' = {}
    /\ tgtBefore' = <<>>
    /\ emCalls' = <<>>
    /\ released' = None
    /\ srcAtSelect' = [p \in Pairs |-> {}]
    /\ UNCHANGED << tables, clock, written >>

\* the calls a caller of the watermark store makes, as the tests call the
\* functions one by one
StoreSteps ==
    {Step("make_sure_table_exists", "log"), Step("today", "address")}
    \cup {Step(fn, p) : fn \in {"log_upload", "get_last_uploaded_time"},
                        p \in Pairs}

\* one more call of a function of the watermark store; the caller notes how
\* the call before ended
call_store ==
    /\ status \in {"idle", "done", "failed"}
    /\ runs < MaxCalls
    /\ runs' = runs + 1
    /\ \E s \in StoreSteps : prog' = <<s>>
    /\ status' = "running"
    /\ step' = 1
    /\ sub' = "call"
    /\ exc' = FALSE
    /\ stack' = <<>>
    /\ frame' = [columns |-> <<>>, row |-> None]
    /\ released' = None
    /\ logAtStart' = tables[log].rows
    /\ written' = IF status = "idle" \/ Cur.fn # "log_upload"
                  THEN written
                  ELSE IF status = "done"
                  THEN [written EXCEPT ![Cur.pair] =
                           [status |-> "returned", arg |-> Some(today),
                            prev |-> @.arg]]
                  ELSE [written EXCEPT ![Cur.pair].status = "raised"]
    /\ UNCHANGED << tables, clock, columns, last_upload, today, cur,
                    srcAtSelect, tgtBefore, emCalls, copied >>

\* The other clients and the clock change only the source tables and the
\* day.  The script reads the columns of a source table in get_columns and
\* in the SELECT of copy(), its rows in that SELECT, and the day in
\* date.today(); every other step of the script commutes with the changes.
\* A change is therefore interleaved only right before a read it can
\* influence: a schema change before the two reads of that table's columns,
\* a passing day and a new row before date.today() and before the SELECT
\* (a row is dated by the day it is written), and a new row once more
\* inside copy(), after the SELECT that misses it.
HasNote(p) == "note" \in SeqRange(ColNames(tables[Source(p)].cols))

Events ==
    clock + Len(tables[Source("address")].rows)
          + Len(tables[Source("company")].rows)
          + Cardinality({p \in Pairs : HasNote(p)})

BeforeCall(fn) == status = "running" /\ sub = "call" /\ Cur.fn = fn

\* a day passes
tick ==
    /\ Events < MaxEvents
    /\ BeforeCall("today") \/ Running("copy", "select")
    /\ clock < MaxDay
    /\ clock' = clock + 1
    /\ UNCHANGED << tables, runs, prog, progvars, obsvars >>

\* another client inserts a row into a source table, created now
write_source(p) ==
    /\ Events < MaxEvents
    /\ \/ BeforeCall("today")
       \/ Running("copy", "select")
       \/ Running("copy", "executemany") /\ Cur.pair = p
    /\ Len(tables[Source(p)].rows) < MaxRows
    /\ LET t == tables[Source(p)]
           row == [c \in SeqRange(ColNames(t.cols)) |->
                      CASE c = KeyField(p) -> Len(t.rows) + 1
                        [] c = TstzField(p) -> clock
                        [] OTHER -> 0]
       IN tables' = [tables EXCEPT ![Source(p)].rows = Append(@, row)]
    /\ UNCHANGED << clock, runs, prog, progvars, obsvars >>

\* another client adds a column to a source table
alter_source(p) ==
    /\ Events < MaxEvents
    /\ BeforeCall("get_columns") \/ Running("copy", "select")
    /\ Cur.pair = p
    /\ ~HasNote(p)
    /\ LET t == tables[Source(p)] IN
         tables' = [tables EXCEPT ![Source(p)] =
            [t EXCEPT !.cols = Append(@, Column("note", "integer")),
                      !.rows = [i \in 1..Len(t.rows) |->
                                   [c \in DOMAIN t.rows[i] \cup {"note"} |->
                                       IF c = "note" THEN 0 ELSE t.rows[i][c]]]]]
    /\ UNCHANGED << clock, runs, prog, progvars, obsvars >>

SourceTable(p) ==
    [exists |-> TRUE,
     cols |-> << Column(KeyField(p), "integer"), Column(TstzField(p), "date") >>,
     unique |-> {KeyField(p)},
     rows |-> <<>>]

Init ==
    /\ tables = [r \in Rels |->
                   IF r.db = "source" THEN SourceTable(r.name) ELSE NoTable]
    /\ clock = 0
    /\ runs = 0
    /\ prog = MainSteps
    /\ status = "idle"
    /\ step = 1
    /\ sub = "none"
    /\ stack = <<>>
    /\ exc = FALSE
    /\ columns = [p \in Pairs |-> <<>>]
    /\ last_upload = None
    /\ today = 0
    /\ frame = [columns |-> <<>>, row |-> None]
    /\ cur = NoCursor
    /\ released = None
    /\ logAtStart = <<>>
    /\ srcAtSelect = [p \in Pairs |-> {}]
    /\ tgtBefore = <<>>
    /\ emCalls = <<>>
    /\ written = [p \in Pairs |->
                     [status |-> "none", arg |-> None, prev |-> None]]
    /\ copied = {}

Next ==
    \/ start_main
    \/ connect
    \/ raise_in_body
    \/ finally
    \/ get_columns
    \/ make_sure_table_exists
    \/ get_last_uploaded_time
    \/ date_today
    \/ copy_select
    \/ copy_executemany
    \/ copy_insert_row
    \/ log_upload_delete
    \/ log_upload_insert
    \/ tick
    \/ \E p \in Pairs : write_source(p)
    \/ \E p \in Pairs : alter_source(p)

Spec == Init /\ [][Next]_vars

\* the functions of the watermark store called in any order
NextStore ==
    \/ call_store
    \/ connect
    \/ raise_in_body
    \/ finally
    \/ make_sure_table_exists
    \/ get_last_uploaded_time
    \/ date_today
    \/ log_upload_delete
    \/ log_upload_insert
    \/ tick

SpecStore == Init /\ [][NextStore]_vars

\* ------------------------------------------------------ the claims
\* the watermark rows of pair p among the log rows rows, in order
LogSeq(rows, p) ==
    FilterSeq(rows, {r \in SeqRange(rows) :
                        /\ r["schema_name"] = Target(p).schema
                        /\ r["relation_name"] = Target(p).name})
Watermarks(p) == LogSeq(tables[log].rows, p)
\* the watermark row log_upload writes for pair p and the date d
WatermarkRow(p, d) ==
    [c \in {"schema_name", "relation_name", "loaded"} |->
        CASE c = "schema_name" -> "public"
          [] c = "relation_name" -> p
          [] c = "loaded" -> ToTimestamptz(d)]

\* main() is right behind a call of fn for pair p that returned normally
JustReturned(fn, p) ==
    \/ /\ status = "running" /\ sub = "call" /\ step > 1
       /\ prog[step - 1] = Step(fn, p)
    \/ /\ status = "done"
       /\ prog[Len(prog)] = Step(fn, p)

\* the SELECT of copy() has run for the pair main() is processing
Selected(p) ==
    /\ status \in {"running", "done", "failed"}
    /\ Cur.pair = p
    /\ Cur.fn \in {"copy", "log_upload"}
    /\ cur.insert_query.rel = Target(p)

\* C1: get_last_uploaded_time(r, log) returns the timestamp passed to the
\* most recent log_upload(r, log, t) that returned (as the TIMESTAMPTZ value
\* the column loaded holds for it), whatever log_upload calls were made for
\* the other relation, and None when no log_upload for r was ever performed.
C1_ReadAfterWrite ==
    \A p \in Pairs :
        JustReturned("get_last_uploaded_time", p) =>
            /\ written[p].status = "returned" =>
                   last_upload = Some(ToTimestamptz(The(written[p].arg)))
            /\ written[p].status = "none" => last_upload = None

\* C1 witness: a read that follows two writes of different days for the
\* relation and a write of yet another value for the other relation
C1_Witness ==
    /\ JustReturned("get_last_uploaded_time", "address")
    /\ written["address"].status = "returned"
    /\ written["address"].prev # None
    /\ written["address"].prev # written["address"].arg
    /\ written["company"].status = "returned"
    /\ written["company"].arg # written["address"].arg
    /\ last_upload = Some(ToTimestamptz(The(written["address"].arg)))

\* C2: the watermark of a pair changes in a run, and log_upload for the pair
\* is entered, only after copy() for that pair returned without error in
\* that run; when copy() raises, the pair's watermark rows are those the run
\* started with.
C2_WatermarkAfterCopy ==
    \A p \in Pairs :
        /\ ( \/ Watermarks(p) # LogSeq(logAtStart, p)
             \/ status # "idle" /\ Cur = Step("log_upload", p) )
           => p \in copied
        /\ (status = "failed" /\ Cur = Step("copy", p))
           => Watermarks(p) = LogSeq(logAtStart, p)

\* C2 witness: copy() raised in a run that found a watermark of an earlier
\* run in the log and a row in the destination
C2_Witness ==
    /\ status = "failed"
    /\ Cur.fn = "copy"
    /\ LogSeq(logAtStart, Cur.pair) # <<>>
    /\ Watermarks(Cur.pair) = LogSeq(logAtStart, Cur.pair)
    /\ tables[Target(Cur.pair)].rows # <<>>

\* the calls the finally block of connect() made on the connection c
FinalCalls(c) ==
    SelectSeq(c.calls, LAMBDA x : x \in {"commit", "cursor.close", "close"})

\* C3: whenever a connect() scope whose connection was opened is left, on
\* any exit path, the connection was committed, then its cursor (when one
\* was created) closed, then the connection closed, each exactly once.
C3_ScopedRelease ==
    released # None =>
        FinalCalls(The(released)) =
            <<"commit">>
            \o (IF The(released).cursor THEN <<"cursor.close">> ELSE <<>>)
            \o <<"close">>

\* copy() for pair p returned and main() has not yet left its log_upload
CopyDone(p) ==
    /\ status \in {"running", "done", "failed"}
    /\ Cur = Step("log_upload", p)
    /\ p \in copied

\* the tuple SELECT * returned for the source row r
FetchedAs(r) == [i \in 1..Len(cur.description) |-> r[cur.description[i]]]
\* the timestamp column of a fetched tuple
TstzOf(tuple, p) == tuple[IndexOf(cur.description, TstzField(p))]

\* C4 as stated: after copy() was called with a watermark W, no row of the
\* destination has a timestamp before W.
C4_NoRowBeforeWatermark ==
    \A p \in Pairs :
        (CopyDone(p) /\ last_upload # None) =>
            \A r \in SeqRange(tables[Target(p)].rows) :
                r[TstzField(p)] >= ToDate(The(last_upload))

\* C4 amended: with a watermark W, copy() selects exactly the source rows
\* whose timestamp is >= W, and every destination row with a timestamp
\* before W was in the destination before the call.
C4_RangeFilter ==
    \A p \in Pairs :
        (Selected(p) /\ last_upload # None) =>
            LET W == ToDate(The(last_upload)) IN
            /\ \A i \in 1..Len(cur.fetched) : TstzOf(cur.fetched[i], p) >= W
            /\ SeqRange(cur.fetched) =
                   {FetchedAs(r) : r \in {x \in srcAtSelect[p] :
                                             x[TstzField(p)] >= W}}
            /\ \A r \in SeqRange(tables[Target(p)].rows) :
                   r[TstzField(p)] < W => r \in SeqRange(tgtBefore)

\* C4 witness: a copy with a watermark that left a source row out, the
\* destination holding that row from an earlier run
C4_Witness ==
    \E p \in Pairs :
        /\ CopyDone(p)
        /\ last_upload # None
        /\ \E r \in srcAtSelect[p] : FetchedAs(r) \notin SeqRange(cur.fetched)
        /\ \E r \in SeqRange(tables[Target(p)].rows) :
               r[TstzField(p)] < ToDate(The(last_upload))

\* C5: without a watermark copy() fetches every row of the source table,
\* and passes all fetched rows to the destination in one executemany call
\* whose column list is the description of the source query, in its order,
\* with one placeholder per column.
C5_UnboundedCopy ==
    \A p \in Pairs :
        /\ (Selected(p) /\ last_upload = None) =>
              /\ SeqRange(cur.fetched) = {FetchedAs(r) : r \in srcAtSelect[p]}
              /\ Len(cur.fetched) = Cardinality(srcAtSelect[p])
        /\ (Running("copy", "connect_tgt") /\ Cur.pair = p) =>
              cur.description = ColNames(tables[Source(p)].cols)
        /\ (Running("copy", "exit") /\ Cur.pair = p) =>
              /\ Len(emCalls) = 1
              /\ emCalls[1].params = cur.fetched
              /\ emCalls[1].query.rel = Target(p)
              /\ emCalls[1].query.columns = cur.description
              /\ emCalls[1].query.placeholders = Len(cur.description)

\* C5 witness: a copy without watermark that fetched two rows and has
\* passed them on
C5_Witness ==
    /\ Running("copy", "exit")
    /\ last_upload = None
    /\ Len(cur.fetched) = 2
    /\ Len(tables[Target(Cur.pair)].rows) = 2

\* C6: when log_upload(r, log, t) has returned, the log holds exactly one
\* row for (r.schema, r.name), with loaded = t, whatever row it held for r
\* before; the call executed a DELETE and then an INSERT on one connection.
C6_ReplaceSemantics ==
    \A p \in Pairs :
        JustReturned("log_upload", p) =>
            /\ Watermarks(p) = << WatermarkRow(p, today) >>
            /\ released # None
            /\ The(released).db = log.db
            /\ The(released).calls =
                   <<"DELETE", "INSERT", "commit", "cursor.close", "close">>

\* C6 witness: log_upload returned and the log held a row of another day
\* for the relation when the run began
C6_Witness ==
    \E p \in Pairs :
        /\ JustReturned("log_upload", p)
        /\ Len(LogSeq(logAtStart, p)) = 1
        /\ LogSeq(logAtStart, p) # << WatermarkRow(p, today) >>
        /\ Watermarks(p) = << WatermarkRow(p, today) >>

\* main() has not yet called fn for pair p in this run
NotYetCalled(fn, p) ==
    /\ status # "idle"
    /\ \E i \in 1..Len(prog) : prog[i] = Step(fn, p) /\ step < i

\* the call of fn for pair p has returned in this run
HasReturned(fn, p) ==
    /\ status # "idle"
    /\ \E i \in 1..Len(prog) :
          prog[i] = Step(fn, p) /\ (step > i \/ status = "done")

C8_IdempotentProvisioning ==
    [][ (status = "running" /\ Cur.fn = "make_sure_table_exists") =>
          LET rel == ProvisionRel(Cur.pair) IN
          /\ tables[rel].exists => tables'[rel] = tables[rel]
          /\ \A r \in Rels \ {rel} : tables'[r] = tables[r]
          /\ sub = "execute" => ENABLED make_sure_table_exists ]_vars

\* C8 witness: a second call is about to commit, for a table that holds a
\* row and whose columns differ from the ones passed
C8_Witness ==
    /\ Running("make_sure_table_exists", "exit")
    /\ Cur.pair # "log"
    /\ tables[ProvisionRel(Cur.pair)].exists
    /\ tables[ProvisionRel(Cur.pair)].rows # <<>>
    /\ tables[ProvisionRel(Cur.pair)].cols # ProvisionCols(Cur.pair)

\* C9: when a pair has no watermark and its source table no row, the read
\* of the watermark returns None, copy() selects without lower bound and
\* inserts nothing, and once log_upload returned the log holds exactly one
\* row for the pair: (public, <pair>, today).
C9_FirstRun ==
    \A p \in Pairs :
        ( /\ JustReturned("log_upload", p)
          /\ LogSeq(logAtStart, p) = <<>>
          /\ srcAtSelect[p] = {} ) =>
            /\ last_upload = None
            /\ DateRange(last_upload) = None
            /\ cur.fetched = <<>>
            /\ Len(emCalls) = 1 /\ emCalls[1].params = <<>>
            /\ tables[Target(p)].rows = tgtBefore
            /\ Watermarks(p) = << WatermarkRow(p, today) >>

\* C9 witness: the address pair processed on a first run with an empty
\* source table
C9_Witness ==
    /\ JustReturned("log_upload", "address")
    /\ runs = 1
    /\ srcAtSelect["address"] = {}
    /\ tables[Target("address")].rows = <<>>
    /\ Watermarks("address") = << WatermarkRow("address", today) >>

\* the keys of a set of rows of pair p
Keys(rows, p) == {r[KeyField(p)] : r \in rows}

\* C10: the watermark a run writes is the date taken before its copy: a
\* source row written after the SELECT of that copy has a timestamp >= that
\* watermark; and when a run has completed, every row the source held at
\* the SELECT of each pair is in the destination.
C10_NoRowLost ==
    \A p \in Pairs :
        /\ Selected(p) =>
              \A r \in SeqRange(tables[Source(p)].rows) :
                  r[KeyField(p)] \notin Keys(srcAtSelect[p], p)
                      => r[TstzField(p)] >= today
        /\ status = "done" =>
              \A r \in srcAtSelect[p] :
                  \E d \in SeqRange(tables[Target(p)].rows) :
                      /\ d[KeyField(p)] = r[KeyField(p)]
                      /\ d[TstzField(p)] = r[TstzField(p)]

\* C10 witness: a run with a watermark completed and inserted a row dated
\* the day of the watermark, written after the SELECT of the run before
C10_Witness ==
    /\ status = "done"
    /\ last_upload # None
    /\ \E d \in SeqRange(tables[Target("company")].rows) :
          /\ d \notin SeqRange(tgtBefore)
          /\ d[TstzField("company")] = ToDate(The(last_upload))

\* the place of a function in the processing of a tuple, as C11 orders them
Rank(fn) ==
    CASE fn = "get_columns" -> 1
      [] fn = "make_sure_table_exists" -> 2
      [] fn = "get_last_uploaded_time" -> 3
      [] fn = "today" -> 4
      [] fn = "copy" -> 5
      [] fn = "log_upload" -> 6

\* the steps that read the watermark, copy and write the watermark
PairWork == {"get_last_uploaded_time", "today", "copy", "log_upload"}

\* main() has called the function of step i of this run
Entered(i) ==
    /\ status # "idle"
    /\ i < step \/ (i = step /\ (sub # "call" \/ status # "running"))

\* C11 as stated: no step of the company tuple (its introspection and
\* provisioning included) is executed before the watermark of the address
\* tuple has been written.
C11_StrictSequence ==
    \A i \in 1..Len(prog) :
        (Entered(i) /\ prog[i].pair = "company")
            => HasReturned("log_upload", "address")

\* C11 amended: main() introspects both source tables, then provisions both
\* target tables and the log, then processes the tuples one after the
\* other, each as read watermark, copy, write watermark.  For each tuple
\* the steps come in the order introspect, provision, read, copy, write;
\* the tables a tuple works on exist when its read, copy and write run; no
\* read, copy or write of the company tuple runs before the address
\* watermark is written; and no step made for the company tuple, failing
\* or not, changes the address rows of the destination or the address
\* watermark.
C11_DriverOrdering ==
    [][ status = "running" =>
          /\ \A i \in 1..(step - 1) :
                 prog[i].pair = Cur.pair => Rank(prog[i].fn) < Rank(Cur.fn)
          /\ Cur.fn \in PairWork =>
                 /\ HasReturned("make_sure_table_exists", Cur.pair)
                 /\ HasReturned("make_sure_table_exists", "log")
                 /\ HasReturned("get_columns", Cur.pair)
                 /\ tables[Target(Cur.pair)].exists
                 /\ tables[log].exists
          /\ (Cur.pair = "company" /\ Cur.fn \in PairWork) =>
                 /\ HasReturned("log_upload", "address")
                 /\ "address" \in copied
                 /\ Len(Watermarks("address")) = 1
                 /\ tables'[Target("address")] = tables[Target("address")]
                 /\ LogSeq(tables'[log].rows, "address")
                        = Watermarks("address") ]_vars

\* C11 witness: the copy of the company tuple failed in a first run, and
\* the address rows copied and the address watermark written by that run
\* are in place
C11_Witness ==
    /\ status = "failed"
    /\ runs = 1
    /\ Cur = Step("copy", "company")
    /\ tables[Target("address")].rows # <<>>
    /\ Len(Watermarks("address")) = 1

\* log_upload for pair p was interrupted between its DELETE and its INSERT
\* and its scope has not been left yet
Interrupted(p) ==
    /\ status = "running" /\ sub = "unwind"
    /\ Cur = Step("log_upload", p)
    /\ Top.calls = <<"DELETE">>

\* log_upload for pair p was interrupted between its DELETE and its INSERT
\* and its scope has been left
WasInterrupted(p) ==
    /\ status = "failed"
    /\ Cur = Step("log_upload", p)
    /\ released # None
    /\ "DELETE" \in SeqRange(The(released).calls)
    /\ "INSERT" \notin SeqRange(The(released).calls)

\* C12 as stated: a log_upload interrupted after its DELETE and before its
\* INSERT leaves no watermark row for the relation.
C12_InterruptLosesWatermark ==
    \A p \in Pairs : WasInterrupted(p) => Watermarks(p) = <<>>

\* C12 amended: when log_upload is interrupted after its DELETE and before
\* its INSERT, the watermark row of the relation is lost if the exception
\* was raised in the client (the transaction is intact) and the commit of
\* the scope succeeds; when the server reported the error (the transaction
\* is aborted) or the commit raises, the DELETE is undone and the rows of
\* the relation stay as they were.  A run that starts without a watermark
\* row for a relation reads None for it and selects every source row.
C12_LostWatermark ==
    [][ \A p \in Pairs :
          /\ Interrupted(p) =>
                LogSeq(tables'[log].rows, p) =
                    IF /\ ~Top.aborted
                       /\ "cursor.close" \in SeqRange(The(released').calls)
                    THEN <<>>
                    ELSE Watermarks(p)
          /\ (LogSeq(logAtStart, p) = <<>> /\ ~exc) =>
                /\ JustReturned("get_last_uploaded_time", p)
                       => last_upload = None
                /\ Selected(p) =>
                       /\ last_upload = None
                       /\ SeqRange(cur.fetched) =
                              {FetchedAs(r) : r \in srcAtSelect[p]} ]_vars

\* C12 witness: the scope of an interrupted log_upload committed the DELETE
\* of the row a run before had written, and closed
C12_Witness ==
    \E p \in Pairs :
        /\ WasInterrupted(p)
        /\ The(released).calls = <<"DELETE", "commit", "cursor.close", "close">>
        /\ LogSeq(logAtStart, p) # <<>>
        /\ Watermarks(p) = <<>>

\* the keys of the tuples the SELECT of copy() fetched
FetchedKeys(p) ==
    {cur.fetched[i][IndexOf(cur.description, KeyField(p))] :
        i \in 1..Len(cur.fetched)}

\* C13: the destination holds at most one row per key value in every
\* state; the SELECT of a copy fetches again every row already in the
\* destination that lies in its range (so a run that follows one that
\* failed between copy and log_upload selects the rows of that copy again);
\* and when copy has returned the destination holds the rows it held
\* before, unchanged, plus one row per fetched key that was not there, each
\* of them a row of the source.
C13_RecopySafe ==
    \A p \in Pairs :
        LET rows == tables[Target(p)].rows IN
        /\ \A i, j \in 1..Len(rows) :
               rows[i][KeyField(p)] = rows[j][KeyField(p)] => i = j
        /\ (Selected(p) /\ ~exc) =>
               \A d \in SeqRange(tgtBefore) :
                   InRange(d[TstzField(p)], DateRange(last_upload))
                       => d[KeyField(p)] \in FetchedKeys(p)
        /\ (CopyDone(p) /\ ~exc) =>
               /\ SubSeq(rows, 1, Len(tgtBefore)) = tgtBefore
               /\ Keys(SeqRange(rows), p) =
                      Keys(SeqRange(tgtBefore), p) \cup FetchedKeys(p)
               /\ \A d \in SeqRange(rows) :
                      \E r \in srcAtSelect[p] :
                          /\ r[KeyField(p)] = d[KeyField(p)]
                          /\ r[TstzField(p)] = d[TstzField(p)]

\* C13 witness: a second run whose copy returned; the run before had
\* copied the rows and written no watermark, so all of them were fetched
\* again and none was inserted
C13_Witness ==
    \E p \in Pairs :
        /\ CopyDone(p) /\ ~exc
        /\ runs = 2
        /\ LogSeq(logAtStart, p) = <<>>
        /\ tgtBefore # <<>>
        /\ Len(cur.fetched) = Len(tgtBefore)
        /\ tables[Target(p)].rows = tgtBefore

\* C14: every operation works on connections it opened itself; at most two
\* are open at any time, two only inside copy() (the source connection
\* around the target connection); a connection leaves its scope closed;
\* and none is open when an operation has returned or raised.
C14_OneConnectionPerOperation ==
    [][ /\ Len(stack') <= 2
        /\ Len(stack') = 2 =>
              /\ Cur'.fn = "copy"
              /\ stack'[1].db = Source(Cur'.pair).db
              /\ stack'[2].db = Target(Cur'.pair).db
        /\ Len(stack') > Len(stack) => stack'[Len(stack')].calls = <<>>
        /\ Len(stack') < Len(stack) =>
              "close" \in SeqRange(The(released').calls)
        /\ (status' \in {"done", "failed"} \/ step' # step \/ sub' = "call")
              => stack' = <<>> ]_vars

\* C15: no step of log_upload for a relation, in its transaction or at its
\* commit, changes the watermark rows of the other relation or any table
\* but the log, so what get_last_uploaded_time finds for the other relation
\* stays the same.
C15_LogUploadFrame ==
    [][ (status = "running" /\ Cur.fn = "log_upload") =>
          \A q \in Pairs \ {Cur.pair} :
              /\ LogSeq(tables'[log].rows, q) = Watermarks(q)
              /\ stack' # <<>> =>
                    LogSeq(View(stack'[Len(stack')], log).rows, q)
                        = Watermarks(q)
              /\ \A r \in Rels \ {log} : tables'[r] = tables[r] ]_vars

\* C15 witness: log_upload for address has replaced, in its transaction,
\* the address row of another day while the log holds a company row
C15_Witness ==
    /\ Running("log_upload", "exit")
    /\ Cur.pair = "address"
    /\ Watermarks("company") # <<>>
    /\ Watermarks("address") # <<>>
    /\ LogSeq(View(Top, log).rows, "address") # Watermarks("address")
    /\ LogSeq(View(Top, log).rows, "company") = Watermarks("company")

\* C16: the clock never going back, the stored watermark of a relation
\* never decreases and disappears only in a step that raises; a log_upload
\* that returned has stored the date of its run; and the copy of a run that
\* found a watermark selects exactly the source rows dated on or after the
\* date that watermark was written with, which is not after the date of the
\* run.
C16_WatermarkMonotone ==
    [][ /\ clock' >= clock
        /\ \A p \in Pairs :
              LET new == LogSeq(tables'[log].rows, p) IN
              /\ (Watermarks(p) # <<>> /\ new # <<>>) =>
                     new[1]["loaded"] >= Watermarks(p)[1]["loaded"]
              /\ (Watermarks(p) # <<>> /\ ~exc') => new # <<>>
              /\ JustReturned("log_upload", p) =>
                     Watermarks(p) = << WatermarkRow(p, today) >>
              /\ (Selected(p) /\ ~exc /\ LogSeq(logAtStart, p) # <<>>) =>
                     \E d \in 0..MaxDay :
                        /\ LogSeq(logAtStart, p) = << WatermarkRow(p, d) >>
                        /\ d <= today
                        /\ SeqRange(cur.fetched) =
                               {FetchedAs(r) :
                                   r \in {x \in srcAtSelect[p] :
                                             x[TstzField(p)] >= d}} ]_vars

\* C16 witness: a second run completed after a first that had written both
\* watermarks; it copied from the company watermark of the first run,
\* fetched a row, and stored a later date
C16_Witness ==
    /\ status = "done"
    /\ runs = 2
    /\ \A p \in Pairs : LogSeq(logAtStart, p) # <<>>
    /\ last_upload = Some(LogSeq(logAtStart, "company")[1]["loaded"])
    /\ Watermarks("company")[1]["loaded"]
          > LogSeq(logAtStart, "company")[1]["loaded"]
    /\ cur.fetched # <<>>

\* the scope that is left next is left by an exception
Unwinding == status = "running" /\ sub = "unwind" /\ stack # <<>>

\* the calls the scope being left made after those of its body
ExitCalls ==
    SubSeq(The(released').calls, Len(Top.calls) + 1,
           Len(The(released').calls))

\* C17 as stated: a scope left by an exception commits, and (the commit
\* returning) what its body executed before the exception persists.
C17_EffectsPersist ==
    [][ Unwinding =>
          /\ ExitCalls[1] = "commit"
          /\ Len(ExitCalls) >= 2 =>
                tables' = [r \in Rels |-> View(Top, r)] ]_vars

\* C17 amended: a scope left by an exception calls commit first and never
\* rolls back; what its body executed persists when the exception was
\* raised in the client and the commit succeeds; when the server reported
\* the error the transaction is aborted and the commit undoes what the body
\* executed, and when the commit raises nothing is applied.
C17_CommitOnException ==
    [][ Unwinding =>
          /\ ExitCalls[1] = "commit"
          /\ "rollback" \notin SeqRange(The(released').calls)
          /\ tables' = IF ~Top.aborted /\ Len(ExitCalls) >= 2
                       THEN [r \in Rels |-> View(Top, r)]
                       ELSE tables ]_vars

\* C17 witness: the target scope of the copy of a first run was left by an
\* exception of its body, committed and closed, and the destination holds
\* a row that copy inserted
C17_Witness ==
    /\ Unwinding
    /\ runs = 1
    /\ Cur.fn = "copy"
    /\ Len(stack) = 1
    /\ released # None
    /\ The(released).calls =
           <<"executemany", "commit", "cursor.close", "close">>
    /\ tables[Target(Cur.pair)].rows # <<>>

====
